---- MODULE Spec2Model ----
(***************************************************************************)
(* Model of drm/driver/vkms/vkms_drv.c: the virtual vblank hrtimer, the    *)
(* CRTC enable/disable/flush hooks and module init/exit.                   *)
(*                                                                         *)
(* Three kinds of context run concurrently:                                *)
(*   - the commit thread (drm_atomic_helper_commit_tail), which calls      *)
(*     atomic_disable, atomic_flush and atomic_enable, in that order;      *)
(*   - the hrtimer interrupt, which runs vkms_vblank_simulate;             *)
(*   - DRM vblank users (drm_vblank_get / drm_vblank_put) and the vblank   *)
(*     disable timer (vblank_disable_fn), which reach vkms_enable_vblank   *)
(*     and vkms_disable_vblank through the DRM vblank core.                *)
(* The kernel services the driver calls (hrtimer_*, drm_crtc_vblank_on/    *)
(* off, drm_crtc_handle_vblank, drm_crtc_send_vblank_event) are modelled   *)
(* by their kernel behaviour at the place the driver calls them.           *)
(***************************************************************************)
EXTENDS Integers, Sequences, FiniteSets, TLC

\* ------------------------------------------------------------------ bounds
MaxTicks == 2          \* clock advances in one behaviour
MaxCommits == 2        \* atomic commits in one behaviour
MaxRefs == 1           \* vblank references held by DRM users at once

\* --------------------------------------------------------------- constants
PERIOD == 16666667     \* ns, the interval of hrtimer_start / hrtimer_forward_now

Deltas == {16666667, 40000000}   \* ns the clock may jump by: one period, or more than two
OffDelays == {0, 5000}           \* drm_vblank_offdelay (0: vblank is never switched off when idle)
NoEvent == 0                     \* crtc->state->event == NULL

VARIABLES
  dev,              \* the vkms pointer: "unloaded", "live", "freed", "oops",
                    \* "null_deref" (vkms_init went on with vkms == NULL)
  now,              \* CLOCK_MONOTONIC, ns
  ticks,            \* number of clock advances so far
  hr_state,         \* vblank_hrtimer: "inactive" or "enqueued"
  hr_expires,       \* vblank_hrtimer expiry, ns
  start_active,     \* hrtimer_init/hrtimer_start ran on an active timer
  cb_pc,            \* vkms_vblank_simulate: "idle", "handle_vblank", "forward", "return"
  vsync,            \* calls of drm_crtc_handle_vblank
  fires,            \* invocations of vkms_vblank_simulate
  last_fire,        \* time of the latest invocation of vkms_vblank_simulate (if fires > 0)
  overrun,          \* that invocation came a period or more after its expiry
  event_lock,       \* dev->event_lock holder: "none" or "commit"
  vblank_enabled,   \* vblank->enabled of the DRM vblank core
  inmodeset,        \* vblank->inmodeset (the private reference of vblank_off)
  canceller,        \* context inside hrtimer_cancel: "none", "commit", "disable_fn"
  cancel_waited,    \* the timer is stopped and the hrtimer_cancel that stopped it had to wait for the callback
  client_refs,      \* vblank references held through drm_vblank_get
  disable_timer,    \* vblank->disable_timer is armed
  offdelay,         \* drm_vblank_offdelay
  commit_pc,        \* position of the commit thread
  crtc_active,      \* crtc->state->active
  old_active,       \* old_crtc_state->active of the running commit
  needs_modeset,    \* drm_atomic_crtc_needs_modeset of the running commit
  state_event,      \* crtc->state->event: NoEvent or a token
  ncommits,         \* commits started so far
  carried,          \* tokens that commits have carried
  delivered         \* sequence of [tok, by]: calls of drm_crtc_send_vblank_event

clockVars == <<now, ticks>>
hrVars == <<hr_state, hr_expires, start_active>>
cbVars == <<cb_pc, vsync, fires, last_fire, overrun>>
refVars == <<client_refs, disable_timer, offdelay>>
coreVars == <<vblank_enabled, inmodeset, canceller, cancel_waited, refVars>>
commitVars == <<commit_pc, crtc_active, old_active, needs_modeset, state_event,
                ncommits, carried>>
vars == <<dev, clockVars, hrVars, cbVars, event_lock, coreVars, commitVars, delivered>>

\* vblank->refcount: the users' references plus the private one of vblank_off
refcount == client_refs + (IF inmodeset THEN 1 ELSE 0)

\* vkms_crtc_atomic_disable has returned and vkms_crtc_atomic_enable was not
\* called since: drm_crtc_vblank_off sets inmodeset as it returns, and
\* drm_crtc_vblank_on clears it.
quiesced == inmodeset

\* "Running" in the sense of hrtimer_active(): enqueued or callback running
hrtimer_active == hr_state = "enqueued" \/ cb_pc # "idle"

Init ==
  /\ dev = "unloaded"
  /\ now = 0 /\ ticks = 0
  /\ hr_state = "inactive" /\ hr_expires = 0 /\ start_active = FALSE
  /\ cb_pc = "idle" /\ vsync = 0 /\ fires = 0 /\ last_fire = 0 /\ overrun = FALSE
  /\ event_lock = "none"
  /\ vblank_enabled = FALSE /\ inmodeset = FALSE
  /\ canceller = "none" /\ cancel_waited = FALSE
  /\ client_refs = 0 /\ disable_timer = FALSE /\ offdelay \in OffDelays
  /\ commit_pc = "idle" /\ crtc_active = FALSE /\ old_active = FALSE
  /\ needs_modeset = FALSE /\ state_event = NoEvent /\ ncommits = 0
  /\ carried = {} /\ delivered = <<>>

\* ------------------------------------------------------------ module init
\* vkms_init: kzalloc, then drm_dev_init(&vkms->drm, ...) with no NULL check.
\* When kzalloc returns NULL, drm_dev_init and the steps after it work on the
\* missing device; vkms_init has no path that returns an error.
vkms_init ==
  /\ dev = "unloaded"
  /\ \E alloc_ok \in BOOLEAN :
       dev' = IF alloc_ok THEN "live" ELSE "null_deref"
  /\ UNCHANGED <<clockVars, hrVars, cbVars, event_lock, coreVars, commitVars, delivered>>

\* ------------------------------------------------------------------ clock
Tick ==
  /\ dev \in {"live", "freed"}
  /\ ticks < MaxTicks
  /\ \E d \in Deltas : now' = now + d
  /\ ticks' = ticks + 1
  /\ UNCHANGED <<dev, hrVars, cbVars, event_lock, coreVars, commitVars, delivered>>

\* ---------------------------------------------------------------- hrtimer
\* Variant: the expiry is set to the current time plus one interval.
hrtimer_forward_from_now(expires, t) == t + PERIOD

\* hrtimer_forward_now(timer, interval) with interval = PERIOD, as
\* hrtimer_forward() computes it: the expiry moves by whole intervals from
\* the old expiry until it is later than the current time t.
hrtimer_forward_now(expires, t) ==
  LET delta == t - expires IN
    IF delta < 0 THEN expires
    ELSE IF delta >= PERIOD
         THEN LET orun == delta \div PERIOD
                  e1 == expires + PERIOD * orun
              IN IF e1 > t THEN e1 ELSE e1 + PERIOD
         ELSE expires + PERIOD

\* Variant: the timer is started with no delay.
hrtimer_start_expiry_nodelay(t) == t

\* Variant: the timer is started in absolute mode, expiry PERIOD.
hrtimer_start_expiry_abs(t) == PERIOD

\* hrtimer_start(timer, PERIOD, HRTIMER_MODE_REL) at time t: expiry t + PERIOD
hrtimer_start_expiry(t) == t + PERIOD

\* Variant: a timer that was armed before is queued again with its old expiry.
vkms_enable_vblank_stale ==
  /\ start_active' = (start_active \/ hrtimer_active)
  /\ cancel_waited' = FALSE
  /\ hr_state' = "enqueued"
  /\ hr_expires' = IF hr_expires > 0 THEN hr_expires ELSE hrtimer_start_expiry(now)

\* Variant: the timer is initialised but not started.
vkms_enable_vblank_init_only ==
  /\ start_active' = (start_active \/ hrtimer_active)
  /\ cancel_waited' = FALSE
  /\ hr_state' = "inactive"
  /\ hr_expires' = hrtimer_start_expiry(now)

\* vkms_enable_vblank: hrtimer_init, set the function, hrtimer_start (relative)
vkms_enable_vblank ==
  /\ start_active' = (start_active \/ hrtimer_active)
  /\ cancel_waited' = FALSE
  /\ hr_state' = "enqueued"
  /\ hr_expires' = hrtimer_start_expiry(now)

\* The timer base runs the callback once the expiry has passed: the timer is
\* dequeued and vkms_vblank_simulate is entered.
TimerExpire ==
  /\ dev \in {"live", "freed"}
  /\ hr_state = "enqueued" /\ cb_pc = "idle"
  /\ now >= hr_expires
  /\ hr_state' = "inactive"
  /\ cb_pc' = "handle_vblank"
  /\ fires' = fires + 1
  /\ last_fire' = now
  /\ overrun' = (now - hr_expires >= PERIOD)
  /\ UNCHANGED <<dev, clockVars, hr_expires, start_active, vsync, event_lock,
                 coreVars, commitVars, delivered>>

\* Variant: the callback takes the event out of crtc->state.
HandleVblank_takes ==
  /\ cb_pc = "handle_vblank"
  /\ event_lock = "none" /\ canceller = "none"
  /\ vsync' = vsync + 1
  /\ state_event' = NoEvent
  /\ cb_pc' = "forward"
  /\ UNCHANGED <<dev, clockVars, hrVars, fires, last_fire, overrun,
                 event_lock, coreVars, delivered,
                 commit_pc, crtc_active, old_active, needs_modeset, ncommits, carried>>

\* Variant: the callback also sends the event it finds in crtc->state.
HandleVblank_delivers ==
  /\ cb_pc = "handle_vblank"
  /\ event_lock = "none" /\ canceller = "none"
  /\ vsync' = vsync + 1
  /\ delivered' = IF state_event # NoEvent
                  THEN Append(delivered, [tok |-> state_event, by |-> "timer"])
                  ELSE delivered
  /\ cb_pc' = "forward"
  /\ UNCHANGED <<dev, clockVars, hrVars, fires, last_fire, overrun,
                 event_lock, coreVars, commitVars>>

\* vkms_vblank_simulate, drm_crtc_handle_vblank(&vkms->crtc): the vblank core
\* takes event_lock and the vblank timestamp lock (held by a context that is
\* disabling vblank) for the duration of the call and releases them.  The
\* driver queues no event on the vblank event list, so nothing is sent from here.
HandleVblank ==
  /\ cb_pc = "handle_vblank"
  /\ event_lock = "none" /\ canceller = "none"
  /\ vsync' = vsync + 1
  /\ cb_pc' = "forward"
  /\ UNCHANGED <<dev, clockVars, hrVars, fires, last_fire, overrun,
                 event_lock, coreVars, commitVars, delivered>>

\* Variant: the callback signals again when it has overrun a period.
ForwardNow_catchup ==
  /\ cb_pc = "forward"
  /\ hr_expires' = hrtimer_forward_now(hr_expires, now)
  /\ cb_pc' = IF now - hr_expires >= PERIOD /\ vsync = fires THEN "handle_vblank" ELSE "return"
  /\ UNCHANGED <<dev, clockVars, hr_state, start_active, vsync, fires, last_fire,
                 overrun, event_lock, coreVars, commitVars, delivered>>

\* vkms_vblank_simulate, hrtimer_forward_now(&vkms->vblank_hrtimer, 16666667)
ForwardNow ==
  /\ cb_pc = "forward"
  /\ hr_expires' = hrtimer_forward_now(hr_expires, now)
  /\ cb_pc' = "return"
  /\ UNCHANGED <<dev, clockVars, hr_state, start_active, vsync, fires, last_fire,
                 overrun, event_lock, coreVars, commitVars, delivered>>

\* Variant: the callback returns HRTIMER_NORESTART.
CallbackReturn_norestart ==
  /\ cb_pc = "return"
  /\ cb_pc' = "idle"
  /\ UNCHANGED <<dev, clockVars, hrVars, vsync, fires, last_fire,
                 overrun, event_lock, coreVars, commitVars, delivered>>

\* vkms_vblank_simulate returns HRTIMER_RESTART: the base enqueues the timer again
CallbackReturn ==
  /\ cb_pc = "return"
  /\ hr_state' = "enqueued"
  /\ cb_pc' = "idle"
  /\ UNCHANGED <<dev, clockVars, hr_expires, start_active, vsync, fires, last_fire,
                 overrun, event_lock, coreVars, commitVars, delivered>>

\* ------------------------------------------------------- DRM vblank core
\* drm_vblank_enable: the enable_vblank hook is called only if !vblank->enabled
drm_vblank_enable ==
  IF ~vblank_enabled
  THEN vkms_enable_vblank /\ vblank_enabled' = TRUE
  ELSE UNCHANGED <<hrVars, cancel_waited, vblank_enabled>>

\* vkms_disable_vblank: hrtimer_cancel(&vkms->vblank_hrtimer) is entered by
\* context ctx; it returns in DisableFnCancelReturns / AtomicDisableCancelReturns.
vkms_disable_vblank(ctx) ==
  /\ canceller' = ctx
  /\ cancel_waited' = FALSE

\* Variant: hrtimer_try_to_cancel, which returns at once.
hrtimer_try_to_cancel_returns == TRUE

\* hrtimer_cancel loops on hrtimer_try_to_cancel, which fails while the
\* callback runs: it can return only when the callback does not run.
hrtimer_cancel_may_return == cb_pc = "idle"

\* Variant: the timer is left as it is.
hrtimer_cancel_state_kept == hr_state

\* hrtimer_cancel leaves the timer dequeued.
hrtimer_cancel_state == "inactive"

\* drm_vblank_get by a DRM user (wait-vblank ioctl, commit helper): the first
\* reference enables vblank; with vblank disabled and the private reference
\* of vblank_off held, it fails.
drm_vblank_get ==
  /\ dev = "live" /\ canceller = "none"
  /\ client_refs < MaxRefs
  /\ IF refcount = 0
     THEN /\ drm_vblank_enable
          /\ client_refs' = client_refs + 1
     ELSE /\ UNCHANGED <<hrVars, cancel_waited, vblank_enabled>>
          /\ client_refs' = IF vblank_enabled THEN client_refs + 1 ELSE client_refs
  /\ UNCHANGED <<dev, clockVars, cbVars, event_lock, inmodeset, canceller,
                 disable_timer, offdelay, commitVars, delivered>>

\* drm_vblank_put: the last reference arms the disable timer unless offdelay is 0
drm_vblank_put ==
  /\ dev = "live"
  /\ client_refs > 0
  /\ client_refs' = client_refs - 1
  /\ disable_timer' = IF refcount = 1 /\ offdelay # 0 THEN TRUE ELSE disable_timer
  /\ UNCHANGED <<dev, clockVars, hrVars, cbVars, event_lock, vblank_enabled,
                 inmodeset, canceller, cancel_waited, offdelay, commitVars, delivered>>

\* vblank_disable_fn, the disable timer's callback: drm_vblank_disable_and_save
\* calls the disable_vblank hook if no reference is left and vblank is enabled.
\* The delay of the disable timer is not measured against `now`.
vblank_disable_fn ==
  /\ dev = "live" /\ canceller = "none"
  /\ disable_timer
  /\ disable_timer' = FALSE
  /\ IF refcount = 0 /\ vblank_enabled
     THEN vkms_disable_vblank("disable_fn")
     ELSE UNCHANGED <<canceller, cancel_waited>>
  /\ UNCHANGED <<dev, clockVars, hrVars, cbVars, event_lock, vblank_enabled,
                 inmodeset, client_refs, offdelay, commitVars, delivered>>

\* hrtimer_cancel spins: the callback is still running
HrtimerCancelWaits ==
  /\ canceller # "none"
  /\ ~hrtimer_cancel_may_return
  /\ cancel_waited' = TRUE
  /\ UNCHANGED <<dev, clockVars, hrVars, cbVars, event_lock, vblank_enabled,
                 inmodeset, canceller, refVars, commitVars, delivered>>

\* hrtimer_cancel returns to vblank_disable_fn, which clears vblank->enabled
DisableFnCancelReturns ==
  /\ canceller = "disable_fn"
  /\ hrtimer_cancel_may_return
  /\ hr_state' = hrtimer_cancel_state
  /\ vblank_enabled' = FALSE
  /\ canceller' = "none"
  /\ UNCHANGED <<dev, clockVars, hr_expires, start_active, cbVars, event_lock,
                 inmodeset, cancel_waited, refVars, commitVars, delivered>>

\* ---------------------------------------------------------- commit thread
\* drm_atomic_helper_commit: one commit at a time per CRTC.  The new state is
\* swapped in (crtc->state, with its event and active flag) and commit_tail
\* runs modeset disables, then the plane commit with atomic_flush, then
\* modeset enables.
CommitStart ==
  /\ dev = "live" /\ commit_pc = "idle"
  /\ ncommits < MaxCommits
  /\ \E req_active \in BOOLEAN, mode_changed \in BOOLEAN, has_event \in BOOLEAN :
       /\ old_active' = crtc_active
       /\ crtc_active' = req_active
       /\ needs_modeset' = (mode_changed \/ req_active # crtc_active)
       /\ state_event' = IF has_event THEN ncommits + 1 ELSE NoEvent
       /\ carried' = IF has_event THEN carried \cup {ncommits + 1} ELSE carried
  /\ ncommits' = ncommits + 1
  /\ commit_pc' = "disables"
  /\ UNCHANGED <<dev, clockVars, hrVars, cbVars, event_lock, coreVars, delivered>>

\* commit_tail skips atomic_disable: the CRTC was not active or needs no modeset
CommitSkipDisable ==
  /\ commit_pc = "disables"
  /\ ~(old_active /\ needs_modeset)
  /\ commit_pc' = "flush"
  /\ UNCHANGED <<dev, clockVars, hrVars, cbVars, event_lock, coreVars, delivered,
                 crtc_active, old_active, needs_modeset, state_event, ncommits, carried>>

\* vkms_crtc_atomic_disable -> drm_crtc_vblank_off: takes event_lock and calls
\* the disable_vblank hook if vblank->enabled; otherwise it only takes the
\* private reference (inmodeset) and returns.
vkms_crtc_atomic_disable ==
  /\ commit_pc = "disables"
  /\ old_active /\ needs_modeset
  /\ event_lock = "none" /\ canceller = "none"
  /\ IF vblank_enabled
     THEN /\ vkms_disable_vblank("commit")
          /\ event_lock' = "commit"
          /\ commit_pc' = "off_cancel"
          /\ UNCHANGED inmodeset
     ELSE /\ inmodeset' = TRUE
          /\ cancel_waited' = FALSE
          /\ commit_pc' = "flush"
          /\ UNCHANGED <<event_lock, canceller>>
  /\ UNCHANGED <<dev, clockVars, hrVars, cbVars, vblank_enabled, refVars, delivered,
                 crtc_active, old_active, needs_modeset, state_event, ncommits, carried>>

\* hrtimer_cancel returns to drm_crtc_vblank_off, which clears vblank->enabled,
\* takes the private reference, drops event_lock and returns to the commit.
AtomicDisableCancelReturns ==
  /\ commit_pc = "off_cancel" /\ canceller = "commit"
  /\ hrtimer_cancel_may_return
  /\ hr_state' = hrtimer_cancel_state
  /\ vblank_enabled' = FALSE
  /\ inmodeset' = TRUE
  /\ canceller' = "none"
  /\ event_lock' = "none"
  /\ commit_pc' = "flush"
  /\ UNCHANGED <<dev, clockVars, hr_expires, start_active, cbVars, cancel_waited,
                 refVars, delivered, crtc_active, old_active, needs_modeset,
                 state_event, ncommits, carried>>

\* Variant: the flush goes to the locked send whether or not an event is set.
FlushCheck_always ==
  /\ commit_pc = "flush"
  /\ commit_pc' = "flush_lock"
  /\ UNCHANGED <<dev, clockVars, hrVars, cbVars, event_lock, coreVars, delivered,
                 crtc_active, old_active, needs_modeset, state_event, ncommits, carried>>

\* vkms_crtc_atomic_flush, if (crtc->state->event)
FlushCheck ==
  /\ commit_pc = "flush"
  /\ commit_pc' = IF state_event # NoEvent THEN "flush_lock" ELSE "enables"
  /\ UNCHANGED <<dev, clockVars, hrVars, cbVars, event_lock, coreVars, delivered,
                 crtc_active, old_active, needs_modeset, state_event, ncommits, carried>>

\* vkms_crtc_atomic_flush, spin_lock_irqsave(&crtc->dev->event_lock, flags)
FlushLock ==
  /\ commit_pc = "flush_lock"
  /\ event_lock = "none"
  /\ event_lock' = "commit"
  /\ commit_pc' = "flush_send"
  /\ UNCHANGED <<dev, clockVars, hrVars, cbVars, coreVars, delivered,
                 crtc_active, old_active, needs_modeset, state_event, ncommits, carried>>

\* Variant: the flush sends the event only while the timer is running.
FlushSend_if_running ==
  /\ commit_pc = "flush_send"
  /\ delivered' = IF hrtimer_active
                  THEN Append(delivered, [tok |-> state_event, by |-> "flush"])
                  ELSE delivered
  /\ commit_pc' = "flush_unlock"
  /\ UNCHANGED <<dev, clockVars, hrVars, cbVars, event_lock, coreVars,
                 crtc_active, old_active, needs_modeset, state_event, ncommits, carried>>

\* Variant: the flush does not send the event.
FlushSend_drops ==
  /\ commit_pc = "flush_send"
  /\ commit_pc' = "flush_unlock"
  /\ UNCHANGED <<dev, clockVars, hrVars, cbVars, event_lock, coreVars, delivered,
                 crtc_active, old_active, needs_modeset, state_event, ncommits, carried>>

\* vkms_crtc_atomic_flush, drm_crtc_send_vblank_event(crtc, crtc->state->event)
FlushSend ==
  /\ commit_pc = "flush_send"
  /\ delivered' = Append(delivered, [tok |-> state_event, by |-> "flush"])
  /\ commit_pc' = "flush_unlock"
  /\ UNCHANGED <<dev, clockVars, hrVars, cbVars, event_lock, coreVars,
                 crtc_active, old_active, needs_modeset, state_event, ncommits, carried>>

\* Variant: the flush goes on without releasing event_lock.
FlushUnlock_holds ==
  /\ commit_pc = "flush_unlock"
  /\ commit_pc' = "flush_clear"
  /\ UNCHANGED <<dev, clockVars, hrVars, cbVars, event_lock, coreVars, delivered,
                 crtc_active, old_active, needs_modeset, state_event, ncommits, carried>>

\* vkms_crtc_atomic_flush, spin_unlock_irqrestore(&crtc->dev->event_lock, flags)
FlushUnlock ==
  /\ commit_pc = "flush_unlock"
  /\ event_lock' = "none"
  /\ commit_pc' = "flush_clear"
  /\ UNCHANGED <<dev, clockVars, hrVars, cbVars, coreVars, delivered,
                 crtc_active, old_active, needs_modeset, state_event, ncommits, carried>>

\* Variant: the flush leaves the event in crtc->state.
FlushClear_keeps ==
  /\ commit_pc = "flush_clear"
  /\ commit_pc' = "enables"
  /\ UNCHANGED <<dev, clockVars, hrVars, cbVars, event_lock, coreVars, delivered,
                 crtc_active, old_active, needs_modeset, state_event, ncommits, carried>>

\* vkms_crtc_atomic_flush, crtc->state->event = NULL
FlushClear ==
  /\ commit_pc = "flush_clear"
  /\ state_event' = NoEvent
  /\ commit_pc' = "enables"
  /\ UNCHANGED <<dev, clockVars, hrVars, cbVars, event_lock, coreVars, delivered,
                 crtc_active, old_active, needs_modeset, ncommits, carried>>

\* commit_tail skips atomic_enable: the CRTC is not active or needs no modeset.
\* The commit is over and its old state is dropped.
CommitSkipEnable ==
  /\ commit_pc = "enables"
  /\ ~(crtc_active /\ needs_modeset)
  /\ commit_pc' = "idle"
  /\ old_active' = FALSE /\ needs_modeset' = FALSE
  /\ UNCHANGED <<dev, clockVars, hrVars, cbVars, event_lock, coreVars, delivered,
                 crtc_active, state_event, ncommits, carried>>

\* Variant: atomic_enable starts the timer itself, past the vblank core's check.
vkms_crtc_atomic_enable_direct ==
  /\ commit_pc = "enables"
  /\ crtc_active /\ needs_modeset
  /\ canceller = "none"
  /\ inmodeset' = FALSE
  /\ vkms_enable_vblank /\ vblank_enabled' = TRUE
  /\ commit_pc' = "idle"
  /\ old_active' = FALSE /\ needs_modeset' = FALSE
  /\ UNCHANGED <<dev, clockVars, cbVars, event_lock, canceller,
                 refVars, delivered, crtc_active, state_event, ncommits, carried>>

\* vkms_crtc_atomic_enable -> drm_crtc_vblank_on: drops the private reference
\* and enables vblank if references are left or drm_vblank_offdelay is 0.
\* The commit is over and its old state is dropped.
vkms_crtc_atomic_enable ==
  /\ commit_pc = "enables"
  /\ crtc_active /\ needs_modeset
  /\ canceller = "none"
  /\ inmodeset' = FALSE
  /\ IF client_refs # 0 \/ offdelay = 0
     THEN drm_vblank_enable
     ELSE UNCHANGED <<hrVars, cancel_waited, vblank_enabled>>
  /\ commit_pc' = "idle"
  /\ old_active' = FALSE /\ needs_modeset' = FALSE
  /\ UNCHANGED <<dev, clockVars, cbVars, event_lock, canceller,
                 refVars, delivered, crtc_active, state_event, ncommits, carried>>

\* ------------------------------------------------------------ module exit
\* vkms_exit: drm_dev_unregister, drm_dev_unref, kfree(vkms).  Nothing here
\* disables the CRTC or cancels vblank_hrtimer; drm_vblank_cleanup only
\* deletes the vblank disable timer.
vkms_exit ==
  /\ dev = "live"
  /\ commit_pc = "idle" /\ canceller = "none" /\ client_refs = 0
  /\ dev' = "freed"
  /\ disable_timer' = FALSE
  /\ UNCHANGED <<clockVars, hrVars, cbVars, event_lock, vblank_enabled, inmodeset,
                 canceller, cancel_waited, client_refs, offdelay, commitVars, delivered>>

\* The timer, still queued or running, works on the freed vkms_device: one
\* outcome is that the memory is intact and the callback runs as before (the
\* timer actions above), the other is a fault.
UseAfterFree ==
  /\ dev = "freed"
  /\ hrtimer_active
  /\ dev' = "oops"
  /\ UNCHANGED <<clockVars, hrVars, cbVars, event_lock, coreVars, commitVars, delivered>>

Next ==
  \/ vkms_init
  \/ Tick
  \/ TimerExpire
  \/ HandleVblank
  \/ ForwardNow
  \/ CallbackReturn
  \/ drm_vblank_get
  \/ drm_vblank_put
  \/ vblank_disable_fn
  \/ HrtimerCancelWaits
  \/ DisableFnCancelReturns
  \/ CommitStart
  \/ CommitSkipDisable
  \/ vkms_crtc_atomic_disable
  \/ AtomicDisableCancelReturns
  \/ FlushCheck
  \/ FlushLock
  \/ FlushSend
  \/ FlushUnlock
  \/ FlushClear
  \/ CommitSkipEnable
  \/ vkms_crtc_atomic_enable
  \/ vkms_exit
  \/ UseAfterFree

Spec == Init /\ [][Next]_vars

\* The clock advances, the hrtimer base runs a timer whose expiry has passed
\* and lets its callback run to the end, and a holder of the event_lock
\* spinlock reaches its unlock.
LiveTicks == MaxTicks - 1     \* clock advances in one behaviour of FairSpec

LiveTick == Tick /\ ticks < LiveTicks

FairNext ==
  \/ vkms_init
  \/ LiveTick
  \/ TimerExpire
  \/ HandleVblank
  \/ ForwardNow
  \/ CallbackReturn
  \/ drm_vblank_get
  \/ drm_vblank_put
  \/ vblank_disable_fn
  \/ HrtimerCancelWaits
  \/ DisableFnCancelReturns
  \/ CommitStart
  \/ CommitSkipDisable
  \/ vkms_crtc_atomic_disable
  \/ AtomicDisableCancelReturns
  \/ FlushCheck
  \/ FlushLock
  \/ FlushSend
  \/ FlushUnlock
  \/ FlushClear
  \/ CommitSkipEnable
  \/ vkms_crtc_atomic_enable
  \/ vkms_exit
  \/ UseAfterFree

FairSpec ==
  /\ Init /\ [][FairNext]_vars
  /\ WF_vars(LiveTick)
  /\ WF_vars(TimerExpire) /\ WF_vars(HandleVblank)
  /\ WF_vars(ForwardNow) /\ WF_vars(CallbackReturn)
  /\ WF_vars(FlushSend) /\ WF_vars(FlushUnlock)

TypeOK ==
  /\ dev \in {"unloaded", "live", "freed", "oops", "null_deref"}
  /\ now \in Nat /\ ticks \in 0..MaxTicks
  /\ hr_state \in {"inactive", "enqueued"}
  /\ hr_expires \in Nat
  /\ cb_pc \in {"idle", "handle_vblank", "forward", "return"}
  /\ event_lock \in {"none", "commit"}
  /\ vblank_enabled \in BOOLEAN /\ inmodeset \in BOOLEAN
  /\ client_refs \in 0..MaxRefs
  /\ disable_timer \in BOOLEAN /\ offdelay \in OffDelays
  /\ canceller \in {"none", "commit", "disable_fn"}
  /\ cancel_waited \in BOOLEAN /\ overrun \in BOOLEAN
  /\ commit_pc \in {"idle", "disables", "off_cancel", "flush", "flush_lock",
                     "flush_send", "flush_unlock", "flush_clear", "enables"}
  /\ state_event \in 0..MaxCommits /\ ncommits \in 0..MaxCommits
  /\ carried \subseteq 1..MaxCommits
  /\ vsync \in Nat /\ fires \in Nat

\* ------------------------------------------------------------ properties
DeliveredToks == {delivered[i].tok : i \in DOMAIN delivered}
Count(t) == Cardinality({i \in DOMAIN delivered : delivered[i].tok = t})
TimerDeliveries == {i \in DOMAIN delivered : delivered[i].by = "timer"}
NoDuplicates == \A t \in DeliveredToks : Count(t) = 1
BeforeSendPcs == {"disables", "off_cancel", "flush", "flush_lock", "flush_send"}
AfterSendPcs == {"flush_unlock", "flush_clear"}
FlushPcs == {"flush", "flush_lock", "flush_send", "flush_unlock", "flush_clear"}

\* C1 (as claimed): every delivery of a completion token is performed by a
\* timer firing, and no token is delivered more than once.
C1_DeliveredByFiring ==
  /\ \A i \in DOMAIN delivered : delivered[i].by = "timer"
  /\ NoDuplicates

\* C1 (amended): a completion token is delivered by the flush of the commit
\* that carries it, not by a timer firing; it is not delivered before that
\* flush reaches its send, it is delivered once the send is done, and never
\* more than once.
C1_DeliveredByFlush ==
  /\ \A i \in DOMAIN delivered : delivered[i].by = "flush"
  /\ NoDuplicates
  /\ (state_event # NoEvent /\ commit_pc \in BeforeSendPcs) => state_event \notin DeliveredToks
  /\ commit_pc \in AfterSendPcs => state_event \in DeliveredToks

C1_Witness == Len(delivered) >= 1 /\ vsync >= 1 /\ commit_pc \in AfterSendPcs

\* C2: every token carried by a commit is delivered exactly once when its
\* flush is over (never twice, never dropped), and nothing is delivered that
\* no commit carried.
C2_ExactlyOnce ==
  /\ \A i \in DOMAIN delivered : delivered[i].tok \in carried
  /\ \A t \in carried : Count(t) <= 1 /\ (t # state_event => Count(t) = 1)

C2_Witness ==
  /\ commit_pc = "enables" /\ carried = {1, 2} /\ Len(delivered) = 2
  /\ crtc_active /\ old_active /\ fires >= 1

\* C3: once atomic_disable has returned, and until atomic_enable is called,
\* the timer is neither queued nor running its callback, and no vblank signal
\* and no delivery is produced.
C3_DisableBlocksFirings ==
  [][ /\ quiesced' => (hr_state' = "inactive" /\ cb_pc' = "idle")
      /\ (quiesced /\ quiesced') => (vsync' = vsync /\ fires' = fires
                                     /\ TimerDeliveries' = TimerDeliveries) ]_vars

C3_Witness ==
  /\ quiesced /\ cancel_waited /\ commit_pc = "idle"
  /\ fires >= 1 /\ now >= hr_expires

AtomicEnableStep == commit_pc = "enables" /\ commit_pc' = "idle" /\ crtc_active /\ needs_modeset
AtomicDisableStep == commit_pc = "disables" /\ commit_pc' # "disables" /\ old_active /\ needs_modeset
VblankGetStep == client_refs' > client_refs

\* C5: an enable request (atomic_enable, drm_vblank_get) made while vblank is
\* enabled does not touch the timer; atomic_disable made while vblank is
\* disabled cancels nothing; a commit that needs no modeset (enable requested
\* while enabled, disable while disabled) leaves the timer and the vblank
\* state alone; hrtimer_init/hrtimer_start never run on an active timer.
C5_IdempotentEnableDisable ==
  [][ /\ ((AtomicEnableStep \/ VblankGetStep) /\ vblank_enabled)
            => (hr_state' = hr_state /\ hr_expires' = hr_expires)
      /\ (AtomicDisableStep /\ ~vblank_enabled)
            => (canceller' = "none" /\ hr_state' = hr_state /\ hr_expires' = hr_expires)
      /\ (commit_pc # "idle" /\ commit_pc' # commit_pc /\ ~needs_modeset)
            => UNCHANGED <<hr_state, hr_expires, vblank_enabled, inmodeset, canceller>>
      /\ ~start_active' ]_vars

C5_Witness ==
  /\ commit_pc = "enables" /\ ncommits = 2
  /\ old_active /\ crtc_active /\ ~needs_modeset
  /\ vblank_enabled /\ hr_state = "enqueued" /\ fires >= 1

\* C6: the device is never freed while the timer is queued or its callback runs.
C6_DisableBeforeDestroy == dev = "freed" => ~hrtimer_active

\* C7: every firing produces exactly one vblank signal and no completion
\* notification.
C7_FiringSignalsOnce ==
  /\ vsync = fires - (IF cb_pc = "handle_vblank" THEN 1 ELSE 0)
  /\ \A i \in DOMAIN delivered : delivered[i].by # "timer"

C7_Witness == fires = 2 /\ vsync = 2 /\ cb_pc = "idle" /\ delivered = <<>> /\ carried = {}

\* C8: hrtimer_cancel returns only when the callback is not running, and when
\* it has returned the timer is not queued, although the callback asked for a
\* restart; while vblank is disabled the timer stays inactive.
C8_StopIsSynchronous ==
  [][ /\ (canceller # "none" /\ canceller' = "none") => (cb_pc = "idle" /\ ~hrtimer_active')
      /\ ~vblank_enabled' => ~hrtimer_active' ]_vars

C8_Witness ==
  /\ cancel_waited /\ canceller = "none" /\ ~vblank_enabled
  /\ hr_state = "inactive" /\ cb_pc = "idle" /\ hr_expires > last_fire /\ fires >= 1

C10_NoBurst ==
  [][ /\ (hr_state' = "enqueued" /\ cb_pc' = "idle" /\ fires' > 0) => hr_expires' > last_fire'
      /\ (fires' > fires /\ fires > 0) => last_fire' > last_fire ]_vars

C10_Witness ==
  /\ hr_state = "enqueued" /\ cb_pc = "idle" /\ fires >= 2
  /\ overrun /\ hr_expires > last_fire

\* C11: when the allocation of the device fails, vkms_init stops with an
\* error and performs no later initialisation step on the missing device.
C11_AllocFailureAborts == dev # "null_deref"

\* A step in which vkms_enable_vblank runs (the vblank core calls it only
\* when it turns vblank->enabled on).
EnableVblankStep == ~vblank_enabled /\ vblank_enabled'

\* C12: vkms_enable_vblank finds the timer stopped, arms one deadline at
\* exactly now + PERIOD and leaves the timer queued; the callback is entered
\* only when the deadline has passed, and between the start and the first
\* firing nothing moves the deadline, so the first firing comes no sooner
\* than one period after the enable.
C12_StartArmsOnePeriod ==
  [][ /\ EnableVblankStep => /\ ~hrtimer_active
                              /\ hr_state' = "enqueued" /\ cb_pc' = "idle"
                              /\ hr_expires' = now + PERIOD
      /\ fires' > fires => now >= hr_expires
      /\ hr_expires' # hr_expires => (EnableVblankStep \/ cb_pc = "forward") ]_vars

C12_Witness ==
  /\ cb_pc = "handle_vblank" /\ fires = 1 /\ vblank_enabled
  /\ hr_expires > PERIOD /\ last_fire >= hr_expires

\* Steps of vkms_crtc_atomic_flush that read crtc->state->event (the test and
\* the argument of the send) and the step that writes it (the clear).
SlotTestStep == commit_pc = "flush" /\ commit_pc' # "flush"
SlotSendStep == commit_pc = "flush_send" /\ commit_pc' # "flush_send"
SlotClearStep == commit_pc = "flush_clear" /\ commit_pc' # "flush_clear"
TakingPcs == {"flush_lock", "flush_send", "flush_unlock", "flush_clear"}

\* C13 (as claimed): every read and every write of crtc->state->event is
\* made with event_lock held.
C13_SlotAccessUnderLock ==
  [][ (SlotTestStep \/ SlotSendStep \/ SlotClearStep) => event_lock = "commit" ]_vars

\* C13 (amended): only the commit thread reads or writes crtc->state->event;
\* event_lock is held for the read that passes the token to the send, and
\* not for the test before it nor for the clear after it; from the test to
\* the clear no other context changes the token, so the token tested is the
\* token sent and the token cleared.
C13_SlotOwnedByCommit ==
  [][ /\ state_event' # state_event => (commit_pc' # commit_pc /\ cb_pc' = cb_pc)
      /\ SlotSendStep => (event_lock = "commit" /\ event_lock' = "commit")
      /\ (SlotTestStep \/ SlotClearStep) => event_lock = "none"
      /\ commit_pc \in TakingPcs => state_event # NoEvent
      /\ (commit_pc \in TakingPcs /\ ~SlotClearStep) => state_event' = state_event ]_vars

C13_Witness ==
  /\ commit_pc = "flush_unlock" /\ event_lock = "commit"
  /\ cb_pc = "handle_vblank" /\ state_event # NoEvent /\ Count(state_event) = 1

\* C14: every call of drm_crtc_send_vblank_event is made with event_lock
\* held; the flush takes the lock right before the call and releases it right
\* after; inside the flush the lock is held for the send alone, it is free
\* when the flush returns, and the return of a firing leaves it as it was.
C14_LockOnlyAroundDelivery ==
  [][ /\ delivered' # delivered => (event_lock = "commit" /\ event_lock' = "commit")
      /\ (commit_pc = "flush_lock" /\ commit_pc' # "flush_lock")
            => (event_lock = "none" /\ event_lock' = "commit" /\ commit_pc' = "flush_send")
      /\ (commit_pc = "flush_send" /\ commit_pc' # "flush_send")
            => (Len(delivered') = Len(delivered) + 1 /\ commit_pc' = "flush_unlock")
      /\ (commit_pc = "flush_unlock" /\ commit_pc' # "flush_unlock")
            => (event_lock = "commit" /\ event_lock' = "none")
      /\ commit_pc' \in {"flush", "flush_lock", "flush_clear", "enables"} => event_lock' = "none"
      /\ (cb_pc = "return" /\ cb_pc' = "idle") => event_lock' = event_lock ]_vars

C14_Witness ==
  /\ commit_pc = "enables" /\ event_lock = "none"
  /\ Len(delivered) = 2 /\ fires >= 1 /\ cb_pc = "idle"

\* C15 (as claimed): while the timer is stopped no completion token is
\* delivered.
C15_NoDeliveryWhileStopped ==
  [][ delivered' # delivered => hrtimer_active ]_vars

\* C15 (amended): a flush that runs while the timer is stopped delivers the
\* token of its commit at once, with no firing and without starting the
\* timer; while the timer is stopped nothing else delivers.
C15_FlushDeliversWhileStopped ==
  [][ /\ (SlotSendStep /\ ~hrtimer_active)
            => /\ delivered' = Append(delivered, [tok |-> state_event, by |-> "flush"])
               /\ fires' = fires /\ ~hrtimer_active'
      /\ (~hrtimer_active /\ ~SlotSendStep) => delivered' = delivered
      /\ (~hrtimer_active' /\ commit_pc' = "enables") => carried' \subseteq DeliveredToks' ]_vars

C15_Witness ==
  /\ commit_pc = "flush_unlock" /\ quiesced /\ ~hrtimer_active /\ ~crtc_active
  /\ fires >= 1 /\ now >= hr_expires /\ Count(state_event) = 1

\* The order of the positions of vkms_vblank_simulate.
CallbackOrder ==
  {<<"idle", "handle_vblank">>, <<"handle_vblank", "forward">>,
   <<"forward", "return">>, <<"return", "idle">>}

\* C16: a firing signals the vblank first, then moves the deadline forward,
\* then returns asking for a restart: the deadline is moved only after the
\* signal of the same firing, the signal leaves the deadline alone, and the
\* return of every firing leaves the timer queued again.
C16_FiringOrder ==
  [][ /\ cb_pc' # cb_pc => <<cb_pc, cb_pc'>> \in CallbackOrder
      /\ vsync' # vsync => /\ cb_pc = "handle_vblank" /\ cb_pc' = "forward"
                           /\ vsync' = vsync + 1 /\ vsync' = fires
                           /\ hr_expires' = hr_expires /\ hr_state' = "inactive"
      /\ (cb_pc = "forward" /\ cb_pc' # "forward")
            => (vsync = fires /\ hr_state' = "inactive" /\ hr_expires' > now)
      /\ (cb_pc = "return" /\ cb_pc' # "return")
            => (vsync = fires /\ hr_state' = "enqueued" /\ hr_expires' = hr_expires) ]_vars

C16_Witness ==
  /\ cb_pc = "idle" /\ hr_state = "enqueued" /\ fires = 2 /\ vsync = 2
  /\ ~overrun /\ hr_expires > now /\ vblank_enabled

\* C17 (as claimed): whenever no commit and no cancel is in progress, the
\* timer is running if and only if the CRTC is enabled.
C17_RunningIffEnabled ==
  (dev = "live" /\ commit_pc = "idle" /\ canceller = "none")
     => (hrtimer_active <=> crtc_active)

\* C17 (amended): across any number of enable/disable cycles the timer is
\* running exactly while the vblank core has vblank enabled (outside a cancel
\* in progress); after atomic_disable it is stopped until the next
\* atomic_enable; atomic_enable starts it only if vblank references are held
\* or drm_vblank_offdelay is 0, otherwise the next drm_vblank_get does; and
\* every start arms a fresh deadline one period after the start.
C17_RunningIffVblankEnabled ==
  [][ /\ hrtimer_active' => vblank_enabled'
      /\ (vblank_enabled' /\ canceller' = "none") => hrtimer_active'
      /\ quiesced' => (~vblank_enabled' /\ ~hrtimer_active')
      /\ AtomicEnableStep
            => (vblank_enabled' <=> (vblank_enabled \/ client_refs # 0 \/ offdelay = 0))
      /\ (VblankGetStep /\ ~quiesced) => vblank_enabled'
      /\ EnableVblankStep
            => (~hrtimer_active /\ hr_state' = "enqueued" /\ hr_expires' = now + PERIOD) ]_vars

C17_Witness ==
  /\ offdelay = 0 /\ ncommits = 2 /\ commit_pc = "idle" /\ crtc_active
  /\ vblank_enabled /\ hr_state = "enqueued" /\ cb_pc = "idle"
  /\ fires >= 1 /\ overrun /\ now = last_fire /\ hr_expires = now + PERIOD

\* The clock can still reach the deadline of the timer.
DeadlineReachable == ticks < LiveTicks \/ now >= hr_expires
\* vkms_disable_vblank is being called, or the timer base has faulted.
TimerStopRequested == canceller # "none" \/ dev = "oops"

FiringStep == cb_pc' # cb_pc
FlushStep == commit_pc \in FlushPcs /\ commit_pc' # commit_pc

\* C19: a step of a firing leaves crtc->state->event, the enable state and
\* the commit alone; a step of a flush leaves the timer (queued or not, its
\* deadline, its callback) and the vblank state alone; a flush that finds no
\* token ends at once and changes nothing: no lock taken, nothing delivered.
C19_FrameConditions ==
  [][ /\ FiringStep => UNCHANGED <<state_event, crtc_active, vblank_enabled, inmodeset,
                                    commitVars, delivered, event_lock>>
      /\ FlushStep => UNCHANGED <<hrVars, cbVars, vblank_enabled, inmodeset, crtc_active>>
      /\ (FlushStep /\ commit_pc = "flush" /\ state_event = NoEvent)
            => /\ commit_pc' = "enables"
               /\ UNCHANGED <<event_lock, delivered, state_event, hrVars, cbVars, coreVars>> ]_vars

C19_Witness ==
  /\ commit_pc = "enables" /\ ncommits = 2 /\ carried = {1} /\ state_event = NoEvent
  /\ Len(delivered) = 1 /\ event_lock = "none"
  /\ hr_state = "enqueued" /\ fires >= 1 /\ hr_expires > now

====
